---- MODULE Spec2Model ----
(***************************************************************************)
(* Model of the fiscal-document pipeline of courier-sync-forge:            *)
(*   src/src/lib/cufeGenerator.ts       generateCUFE, isCUFEUnique         *)
(*   src/src/lib/qrGenerator.ts         generateInvoiceQR(+Buffer)         *)
(*   src/src/hooks/useInvoiceEmission.ts  emitInvoice                      *)
(*   src/src/components/PasswordRecovery.tsx  onSubmitEmail/onSubmitCode   *)
(*                                                                         *)
(* JavaScript strings that the code takes apart or concatenates are        *)
(* sequences of one-character strings; messages and enum values that are   *)
(* only compared are TLA+ strings.  Amounts are integers in hundredths     *)
(* (a JS number with two decimals), so that Math.round is not the identity.*)
(***************************************************************************)
EXTENDS Integers, Sequences, FiniteSets, TLC

-----------------------------------------------------------------------------
(* Values of the JavaScript runtime *)

\* undefined held by a property, and a property that is not there at all
\* (what JSON.stringify makes of an undefined property).  Both are distinct
\* from every string, which has one character per element.
Undefined == <<"undefined">>

Absent == <<"absent">>

\* reading a property: an absent one reads as undefined
Get(v) == IF v = Absent THEN Undefined ELSE v

\* !v for an optional string: undefined and '' are falsy
Falsy(v) == Get(v) = Undefined \/ v = <<>>

Digits == <<"0", "1", "2", "3", "4", "5", "6", "7", "8", "9">>

IsDigit(ch) == \E i \in 1..10 : Digits[i] = ch

RECURSIVE NatToStr(_)
\* Number.prototype.toString of a non-negative integer
NatToStr(n) == IF n < 10 THEN <<Digits[n + 1]>>
               ELSE NatToStr(n \div 10) \o <<Digits[(n % 10) + 1]>>

\* Number.prototype.toString of an integer
IntToStr(n) == IF n < 0 THEN <<"-">> \o NatToStr(0 - n) ELSE NatToStr(n)

RECURSIVE Repeat(_, _)
Repeat(ch, k) == IF k <= 0 THEN <<>> ELSE <<ch>> \o Repeat(ch, k - 1)

\* String.prototype.padStart(width, ch): pads on the left, never truncates
PadStart(s, width, ch) == Repeat(ch, width - Len(s)) \o s

\* Math.round of an amount held in hundredths: nearest integer, halves up
MathRound(cents) == (cents + 50) \div 100

RECURSIVE RemoveDotsAndDashes(_)
\* s.replace(/[.-]/g, '')
RemoveDotsAndDashes(s) ==
    IF s = <<>> THEN <<>>
    ELSE IF Head(s) \in {".", "-"} THEN RemoveDotsAndDashes(Tail(s))
    ELSE <<Head(s)>> \o RemoveDotsAndDashes(Tail(s))

\* s.replace(/\d$/, ''): drops the last character when it is a digit
RemoveTrailingDigit(s) ==
    IF s # <<>> /\ IsDigit(s[Len(s)]) THEN SubSeq(s, 1, Len(s) - 1) ELSE s

RECURSIVE Join(_)
\* Array.prototype.join('')
Join(parts) == IF parts = <<>> THEN <<>> ELSE Head(parts) \o Join(Tail(parts))

-----------------------------------------------------------------------------
(* Date: an instant, seen through the local-time getters and toISOString.   *)
(* Instant(i) is the i-th half second after 2025-11-06 12:00:00 local time  *)
(* (17:00:00 UTC): two consecutive instants may share their second.         *)

Instant(i) ==
    [year |-> 2025, month |-> 10, date |-> 6,
     hours |-> 12, minutes |-> 0, seconds |-> i \div 2,
     ms |-> (i % 2) * 500, utcHours |-> 17]

\* Date.prototype.toISOString: YYYY-MM-DDTHH:mm:ss.sssZ in UTC
ToISOString(d) ==
    Join(<< PadStart(NatToStr(d.year), 4, "0"), <<"-">>,
            PadStart(NatToStr(d.month + 1), 2, "0"), <<"-">>,
            PadStart(NatToStr(d.date), 2, "0"), <<"T">>,
            PadStart(NatToStr(d.utcHours), 2, "0"), <<":">>,
            PadStart(NatToStr(d.minutes), 2, "0"), <<":">>,
            PadStart(NatToStr(d.seconds), 2, "0"), <<".">>,
            PadStart(NatToStr(d.ms), 3, "0"), <<"Z">> >>)

-----------------------------------------------------------------------------
(* cufeGenerator.ts *)

\* crypto.subtle.digest('SHA-384', ..) rendered as upper-case hex, modelled
\* as an injective function of the encoded string
SHA384Hex(data) == <<"#">> \o data

\* 'CourierSync2025ElectronicInvoicing'
DefaultTechnicalKey ==
    <<"C", "o", "u", "r", "i", "e", "r", "S", "y", "n", "c", "2", "0", "2", "5",
      "E", "l", "e", "c", "t", "r", "o", "n", "i", "c",
      "I", "n", "v", "o", "i", "c", "i", "n", "g">>

Zeros15 == Repeat("0", 15)

\* lines 18-55 with valorSubtotal, which the code computes and never uses,
\* taking the place of the second valorTotal
datosParaCUFE_WithSubtotal(invoice, template, emissionTimestamp) ==
    LET fechaHora     == Join(<< NatToStr(emissionTimestamp.year),
                                 PadStart(NatToStr(emissionTimestamp.month + 1), 2, "0"),
                                 PadStart(NatToStr(emissionTimestamp.date), 2, "0"),
                                 PadStart(NatToStr(emissionTimestamp.hours), 2, "0"),
                                 PadStart(NatToStr(emissionTimestamp.minutes), 2, "0"),
                                 PadStart(NatToStr(emissionTimestamp.seconds), 2, "0") >>)
        valorTotal    == PadStart(IntToStr(MathRound(invoice.total)), 15, "0")
        valorImpuesto == PadStart(IntToStr(MathRound(invoice.taxAmount)), 15, "0")
        valorSubtotal == PadStart(IntToStr(MathRound(invoice.subtotal)), 15, "0")
        nitEmisor     == RemoveTrailingDigit(
                             RemoveDotsAndDashes(template.companyInfo.nit))
        nitAdquirente == RemoveTrailingDigit(
                             RemoveDotsAndDashes(invoice.clientNit))
        claveTecnica  == IF Falsy(template.technicalKey)
                         THEN DefaultTechnicalKey
                         ELSE template.technicalKey
    IN  Join(<< invoice.id, fechaHora, valorTotal, <<"0", "1">>,
                valorImpuesto, <<"0", "4">>, Zeros15, <<"0", "3">>, Zeros15,
                valorSubtotal, nitEmisor, <<"3", "1">>, nitAdquirente,
                claveTecnica >>)

\* the string that is hashed: lines 18-55 of generateCUFE
datosParaCUFE(invoice, template, emissionTimestamp) ==
    LET year    == NatToStr(emissionTimestamp.year)
        month   == PadStart(NatToStr(emissionTimestamp.month + 1), 2, "0")
        day     == PadStart(NatToStr(emissionTimestamp.date), 2, "0")
        hours   == PadStart(NatToStr(emissionTimestamp.hours), 2, "0")
        minutes == PadStart(NatToStr(emissionTimestamp.minutes), 2, "0")
        seconds == PadStart(NatToStr(emissionTimestamp.seconds), 2, "0")
        fechaHora     == Join(<<year, month, day, hours, minutes, seconds>>)
        valorTotal    == PadStart(IntToStr(MathRound(invoice.total)), 15, "0")
        valorImpuesto == PadStart(IntToStr(MathRound(invoice.taxAmount)), 15, "0")
        nitEmisor     == RemoveTrailingDigit(
                             RemoveDotsAndDashes(template.companyInfo.nit))
        nitAdquirente == RemoveTrailingDigit(
                             RemoveDotsAndDashes(invoice.clientNit))
        claveTecnica  == IF Falsy(template.technicalKey)
                         THEN DefaultTechnicalKey
                         ELSE template.technicalKey
    IN  Join(<< invoice.id, fechaHora, valorTotal, <<"0", "1">>,
                valorImpuesto, <<"0", "4">>, Zeros15, <<"0", "3">>, Zeros15,
                valorTotal, nitEmisor, <<"3", "1">>, nitAdquirente,
                claveTecnica >>)

\* generateCUFE hashing everything but the invoice number
generateCUFE_WithoutId(invoice, template, emissionTimestamp) ==
    [cufe      |-> SHA384Hex(datosParaCUFE([invoice EXCEPT !.id = <<>>],
                                           template, emissionTimestamp)),
     timestamp |-> ToISOString(emissionTimestamp)]

\* the CUFEData a fulfilled generateCUFE promise carries
generateCUFE(invoice, template, emissionTimestamp) ==
    [cufe      |-> SHA384Hex(datosParaCUFE(invoice, template, emissionTimestamp)),
     timestamp |-> ToISOString(emissionTimestamp)]

\* isCUFEUnique(cufe, existingInvoices)
isCUFEUnique(cufe, existingInvoices) ==
    ~ \E i \in 1..Len(existingInvoices) : existingInvoices[i].cufe = cufe

-----------------------------------------------------------------------------
(* Data of the application: @/types, @/data/mockData *)

\* defaultTemplates of @/data/mockData: one template per client segment
defaultTemplates ==
    << [segment |-> "corporativo",
        companyInfo |-> [nit |-> <<"9", "0", "0", ".", "5", "5", "5", "-", "1">>],
        technicalKey |-> Absent],
       [segment |-> "pyme",
        companyInfo |-> [nit |-> <<"9", "0", "0", ".", "5", "5", "5", "-", "1">>],
        technicalKey |-> <<"K", "2">>] >>

\* ids of invoices that have not been emitted
DraftId(n) == <<"I", "N", "V", "-">> \o NatToStr(n)

\* ids handed out by the fiscal folio generator
FolioId(n) == <<"F", "E", "-">> \o NatToStr(n)

ShipmentId(n) == <<"E", "N", "V", "-">> \o NatToStr(n)

\* an invoice as the application stores it before emission
DraftInvoice(n, segment, descripciones) ==
    [id |-> DraftId(n), status |-> "Borrador",
     issueDate |-> <<"2", "0", "2", "5", "-", "1", "1", "-", "0", "6">>,
     dueDate |-> <<"2", "0", "2", "5", "-", "1", "2", "-", "0", "6">>,
     cufe |-> Absent, emissionTimestamp |-> Absent,
     pdfGeneratedAt |-> <<"2", "0", "2", "5">>,
     total |-> 11900050, taxAmount |-> 1900000, subtotal |-> 10000050,
     clientNit |-> <<"8", "0", "0", ".", "1", "2", "3", "-", "4">>,
     clientSegment |-> segment,
     items |-> [i \in 1..Len(descripciones) |-> [descripcion |-> descripciones[i]]]]

\* "Envio ENV-1 ENV-3": two tokens, the first one counts
Draft1 == DraftInvoice(1, "corporativo",
              << <<"E", "n", "v", "i", "o", " ">> \o ShipmentId(1)
                    \o <<" ">> \o ShipmentId(3) >>)

\* "ENV-x" has no digits after the dash; "ENV-2." has; "ENV-31" is not the
\* id of shipment ENV-3.  No due date.
Draft2 == [DraftInvoice(2, "particular",
              << <<"E", "N", "V", "-", "x">>, ShipmentId(2) \o <<".">>,
                 ShipmentId(31) >>)
           EXCEPT !.dueDate = Absent]

\* a draft that lacks what emission requires, and has no due date either
Draft3 == [DraftInvoice(3, "pyme", <<>>) EXCEPT !.clientNit = <<>>, !.dueDate = Absent]

\* an invoice emitted in an earlier session, from a draft numbered 0
Issued(status) ==
    LET draft == DraftInvoice(0, "pyme", << <<"F", "l", "e", "t", "e">> >>)
        cufeData == generateCUFE(draft, defaultTemplates[2], Instant(0))
    IN  [draft EXCEPT !.id = FolioId(1), !.status = status,
                      !.cufe = cufeData.cufe,
                      !.emissionTimestamp = cufeData.timestamp,
                      !.pdfGeneratedAt = Absent]

Shipment(n) == [id |-> ShipmentId(n), estado |-> "Pendiente", peso |-> n]

-----------------------------------------------------------------------------
(* localStorage: a key holds nothing (getItem gives null), a string that is *)
(* the JSON of a list, or a string on which JSON.parse or the array call    *)
(* that follows it throws.                                                  *)

NoItem == [kind |-> "null", value |-> <<>>]

Corrupt == [kind |-> "corrupt", value |-> <<>>]

\* JSON.stringify drops the properties that hold undefined
StringifyValue(v) == IF v = Undefined THEN Absent ELSE v

StringifyInvoice(inv) ==
    [inv EXCEPT !.cufe = StringifyValue(@),
                !.emissionTimestamp = StringifyValue(@),
                !.pdfGeneratedAt = StringifyValue(@),
                !.dueDate = StringifyValue(@)]

\* JSON.stringify of an invoice list
JSONStringifyInvoices(list) ==
    [kind |-> "json", value |-> [i \in 1..Len(list) |-> StringifyInvoice(list[i])]]

\* JSON.stringify of a shipment list
JSONStringifyShipments(list) == [kind |-> "json", value |-> list]

\* JSON.parse of a stored list
JSONParse(item) == item.value

InvoiceIds(list) == {list[i].id : i \in 1..Len(list)}

DistinctIds(list) ==
    \A i, j \in 1..Len(list) : list[i].id = list[j].id => i = j

-----------------------------------------------------------------------------
(* Bounds of the model *)

\* emitInvoice calls in one behaviour, all of which may overlap
MaxCalls == 2

-----------------------------------------------------------------------------
(* State *)

VARIABLES
    storage,     \* localStorage: [invoices, shipments], each a stored item
    pending,     \* the emitInvoice calls waiting at `await generateCUFE`
    lastReturn,  \* the emitInvoice call that returned last
    hook,        \* useState of useInvoiceEmission
    started,     \* emitInvoice calls made so far
    successLog,  \* history: the calls that returned success = true, in order
    cufeCalls,   \* the last two generateCUFE calls, with what they returned
    qrCall,      \* the last call of a QR generator, with its outcome
    dialog,      \* PasswordRecovery: its props, useState values and form fields
    inFlight,    \* PasswordRecovery: the submit handlers waiting at their timers
    toast,       \* PasswordRecovery: the title of the last toast shown
    requests     \* PasswordRecovery: requests the component has sent to a backend

emitVars == <<storage, pending, lastReturn, hook, started, successLog>>

cufeVars == <<cufeCalls>>

qrVars == <<qrCall>>

recoveryVars == <<dialog, inFlight, toast, requests>>

vars == <<storage, pending, lastReturn, hook, started, successLog,
          cufeCalls, qrCall, dialog, inFlight, toast, requests>>

-----------------------------------------------------------------------------
(* Collaborators of emitInvoice whose code is outside src/ *)

\* what new Date() may give a call: 12:00:00.000 and 12:00:01.000
Instants == {0, 2}

\* validateInvoiceForEmission(invoice): presence checks on the invoice's fields
validateInvoiceForEmission(invoice) ==
    LET errors ==
            (IF invoice.clientNit = <<>> THEN <<"El NIT del cliente es obligatorio">> ELSE <<>>)
            \o (IF Len(invoice.items) = 0
                THEN <<"La factura debe tener al menos un item">> ELSE <<>>)
        warnings ==
            IF Get(invoice.dueDate) = Undefined
            THEN <<"La factura no tiene fecha de vencimiento">> ELSE <<>>
    IN  [isValid |-> errors = <<>>, errors |-> errors, warnings |-> warnings]

RECURSIVE NextFreeFolio(_, _)
\* the first folio number from n on whose id no invoice of the list has
NextFreeFolio(invoices, n) ==
    IF FolioId(n) \in InvoiceIds(invoices) THEN NextFreeFolio(invoices, n + 1) ELSE n

\* generateFiscalFolio(invoices): the next folio, whose id no invoice of the
\* list has
generateFiscalFolio(invoices) == [id |-> FolioId(NextFreeFolio(invoices, 1))]

-----------------------------------------------------------------------------
(* useInvoiceEmission.ts: the pieces of emitInvoice *)

\* what a throw statement or a failing runtime call raises
Thrown(message) == [isError |-> TRUE, message |-> message]

\* invoices.find(inv => inv.id === invoiceId): the position of the first
\* match, 0 when there is none
FindInvoice(invoices, invoiceId) ==
    IF \E i \in 1..Len(invoices) : invoices[i].id = invoiceId
    THEN CHOOSE i \in 1..Len(invoices) :
             /\ invoices[i].id = invoiceId
             /\ \A j \in 1..(i - 1) : invoices[j].id # invoiceId
    ELSE 0

\* invoice.status === 'Emitida': only emitted invoices are turned away
NotDraft_OnlyEmitted(invoice) == invoice.status = "Emitida"

\* invoice.status !== 'Borrador'
NotDraft(invoice) == invoice.status # "Borrador"

\* defaultTemplates.find(t => t.segment === invoice.clientSegment) || defaultTemplates[0]
SelectTemplate(invoice) ==
    IF \E i \in 1..Len(defaultTemplates) :
           defaultTemplates[i].segment = invoice.clientSegment
    THEN defaultTemplates[CHOOSE i \in 1..Len(defaultTemplates) :
             /\ defaultTemplates[i].segment = invoice.clientSegment
             /\ \A j \in 1..(i - 1) :
                    defaultTemplates[j].segment # invoice.clientSegment]
    ELSE defaultTemplates[1]

\* step 5 without the reset of pdfGeneratedAt
UpdatedInvoice_KeepsPdfGeneratedAt(invoice, fiscalFolio, cufeData) ==
    [invoice EXCEPT !.id = fiscalFolio.id,
                    !.status = "Emitida",
                    !.cufe = cufeData.cufe,
                    !.emissionTimestamp = cufeData.timestamp]

\* step 5: { ...invoice, id, status, cufe, emissionTimestamp, pdfGeneratedAt }
UpdatedInvoice(invoice, fiscalFolio, cufeData) ==
    [invoice EXCEPT !.id = fiscalFolio.id,
                    !.status = "Emitida",
                    !.cufe = cufeData.cufe,
                    !.emissionTimestamp = cufeData.timestamp,
                    !.pdfGeneratedAt = Undefined]

\* step 6 with the branches of the conditional swapped
ReplaceInvoice_Swapped(invoices, invoiceId, updatedInvoice) ==
    [i \in 1..Len(invoices) |->
        IF invoices[i].id = invoiceId THEN invoices[i] ELSE updatedInvoice]

\* step 6: invoices.map(inv => inv.id === invoiceId ? updatedInvoice : inv)
ReplaceInvoice(invoices, invoiceId, updatedInvoice) ==
    [i \in 1..Len(invoices) |->
        IF invoices[i].id = invoiceId THEN updatedInvoice ELSE invoices[i]]

\* descripcion.match(/ENV-\d+/): does a match start at position i
EnvTokenAt(s, i) ==
    /\ i + 4 <= Len(s)
    /\ SubSeq(s, i, i + 3) = <<"E", "N", "V", "-">>
    /\ IsDigit(s[i + 4])

\* descripcion.match(/ENV-\d+/): match[0] of the leftmost match, with all
\* the digits that follow; <<>> stands for null
FirstEnvToken(s) ==
    IF \E i \in 1..Len(s) : EnvTokenAt(s, i)
    THEN LET start == CHOOSE i \in 1..Len(s) :
                          /\ EnvTokenAt(s, i)
                          /\ \A j \in 1..(i - 1) : ~EnvTokenAt(s, j)
             last  == CHOOSE k \in (start + 4)..Len(s) :
                          /\ \A j \in (start + 4)..k : IsDigit(s[j])
                          /\ (k = Len(s) \/ ~IsDigit(s[k + 1]))
         IN  SubSeq(s, start, last)
    ELSE <<>>

\* step 7 collecting every ENV-<digits> piece of each description, not
\* only the first match
ShipmentIdsOf_EveryToken(invoice) ==
    UNION { { SubSeq(s, i, k) :
                i \in {j \in 1..Len(s) : EnvTokenAt(s, j)},
                k \in {j \in 1..Len(s) : IsDigit(s[j])} }
            \cap { t \in { SubSeq(s, i, k) : i \in 1..Len(s), k \in 1..Len(s) } :
                      Len(t) >= 5 /\ \A j \in 5..Len(t) : IsDigit(t[j]) }
            : s \in { invoice.items[i].descripcion : i \in 1..Len(invoice.items) } }

\* step 7: invoice.items.map(..).filter(Boolean), as a set since it is only
\* used through includes()
ShipmentIdsOf(invoice) ==
    { FirstEnvToken(invoice.items[i].descripcion) : i \in 1..Len(invoice.items) }
        \ { <<>> }

\* step 7: shipments.map(shipment => shipmentIds.includes(shipment.id) ? ...)
MarkShipments(shipments, shipmentIds) ==
    [i \in 1..Len(shipments) |->
        IF shipments[i].id \in shipmentIds
        THEN [shipments[i] EXCEPT !.estado = "Facturado"]
        ELSE shipments[i]]

-----------------------------------------------------------------------------
(* useInvoiceEmission.ts: emitInvoice as two steps, split at its one await  *)

NoResult == [success |-> FALSE, invoice |-> <<>>, errors |-> Absent, warnings |-> Absent]

\* no call
IdleCall ==
    [n |-> 0, pc |-> "idle", invoiceId |-> <<>>, index |-> 0,
     warnings |-> <<>>, fiscalFolio |-> [id |-> <<>>], cufeRequested |-> FALSE,
     emissionTimestamp |-> Instant(0), cufePromise |-> [cufe |-> <<>>, timestamp |-> <<>>],
     result |-> NoResult, effects |-> <<>>, threw |-> FALSE,
     atStart |-> [invoices |-> NoItem, shipments |-> NoItem],
     atReturn |-> [invoices |-> NoItem, shipments |-> NoItem],
     alone |-> TRUE]

\* line 34: the list the call parsed when it started, JSON.parse(savedInvoices)
InvoicesOf(call) == JSONParse(call.atStart.invoices)

\* lines 22-25: the call as it enters the try block.  atStart is localStorage
\* as the call found it, whose invoices item the call keeps parsed in its
\* local `invoices`; atReturn and alone are history: localStorage as the call
\* left it, and whether no other call ran in between
EnterCall(invoiceId) ==
    [IdleCall EXCEPT !.n = started + 1, !.pc = "running",
                     !.invoiceId = invoiceId, !.atStart = storage]

\* error instanceof Error ? error.message : 'Error desconocido'
ErrorMessage(error) == IF error.isError THEN error.message ELSE "Error desconocido"

\* the catch block returning its toast's title along with the message
Catch_TwoErrors(call, error) ==
    [call EXCEPT
        !.pc = "returned",
        !.threw = TRUE,
        !.effects = @ \o << <<"toast.error", "Error al emitir factura">>,
                            <<"logPDFAction", "generation_error">> >>,
        !.result = [success |-> FALSE, invoice |-> <<>>,
                    errors |-> <<"Error al emitir factura", ErrorMessage(error)>>,
                    warnings |-> Absent]]

\* lines 139-155: the catch block, for a call in the try block
Catch(call, error) ==
    [call EXCEPT
        !.pc = "returned",
        !.threw = TRUE,
        !.effects = @ \o << <<"toast.error", "Error al emitir factura">>,
                            <<"logPDFAction", "generation_error">> >>,
        !.result = [success |-> FALSE, invoice |-> <<>>,
                    errors |-> <<ErrorMessage(error)>>, warnings |-> Absent]]

\* validation failed, and the result leaves the warnings out
ReturnInvalid_WithoutWarnings(call, validation) ==
    [call EXCEPT
        !.pc = "returned",
        !.effects = @ \o << <<"toast.error", "Validación fallida">> >>,
        !.result = [success |-> FALSE, invoice |-> <<>>,
                    errors |-> validation.errors, warnings |-> <<>>]]

\* lines 48-61: validation failed
ReturnInvalid(call, validation) ==
    [call EXCEPT
        !.pc = "returned",
        !.effects = @ \o << <<"toast.error", "Validación fallida">> >>,
        !.result = [success |-> FALSE, invoice |-> <<>>,
                    errors |-> validation.errors, warnings |-> validation.warnings]]

\* lines 63-75: the folio is generated, the clock read, generateCUFE called,
\* and the call waits for its promise, which holds what generateCUFE read
\* from the invoice when it was called
AwaitCUFE(call, index, validation, fiscalFolio, now) ==
    [call EXCEPT
        !.pc = "awaiting",
        !.index = index,
        !.warnings = validation.warnings,
        !.fiscalFolio = fiscalFolio,
        !.emissionTimestamp = Instant(now),
        !.cufeRequested = TRUE,
        !.cufePromise = generateCUFE(InvoicesOf(call)[index],
                                     SelectTemplate(InvoicesOf(call)[index]),
                                     Instant(now)),
        !.effects = @ \o << <<"logPDFAction", "generation_started">> >>]

\* lines 27-75: the calls a call entering the try block may become, when
\* new Date() is Instant(now)
StartOutcomes(call, now) ==
    LET savedInvoices == storage.invoices IN
    IF savedInvoices.kind = "null"
    THEN {Catch(call, Thrown("No se encontraron facturas"))}
    ELSE IF savedInvoices.kind = "corrupt"
    THEN {Catch(call, Thrown("SyntaxError"))}
    ELSE
    LET invoices == JSONParse(savedInvoices)
        index    == FindInvoice(invoices, call.invoiceId)
    IN
    IF index = 0
    THEN {Catch(call, Thrown("Factura no encontrada"))}
    ELSE IF NotDraft(invoices[index])
    THEN {Catch(call, Thrown("Solo se pueden emitir facturas en estado \"Borrador\""))}
    ELSE
    LET validation == validateInvoiceForEmission(invoices[index]) IN
    IF ~validation.isValid
    THEN {ReturnInvalid(call, validation)}
    ELSE {Catch(call, Thrown("generateFiscalFolio failed"))}
         \cup {AwaitCUFE(call, index, validation, generateFiscalFolio(invoices), now)}

\* lines 23-25, 49-50, 158: the hook's state after the synchronous part of a
\* call that became `call`
HookAfterStart(call) ==
    [isEmitting |-> call.pc = "awaiting",
     validationErrors |-> IF call.pc = "returned" /\ ~call.threw
                          THEN call.result.errors ELSE <<>>,
     validationWarnings |-> IF call.pc = "returned" /\ ~call.threw
                            THEN call.result.warnings ELSE <<>>]

\* the calls that are waiting have seen another call run
Interleaved(others) == { [d EXCEPT !.alone = FALSE] : d \in others }

\* emitInvoice(invoiceId) is called and runs to its await or to its return;
\* new Date() reads the wall clock, which is not monotonic
EmitStart(invoiceId) ==
    /\ started < MaxCalls
    /\ started' = started + 1
    /\ \E now \in Instants :
       \E call \in StartOutcomes(EnterCall(invoiceId), now) :
          /\ hook' = HookAfterStart(call)
          /\ IF call.pc = "awaiting"
             THEN /\ pending' = Interleaved(pending) \cup {call}
                  /\ UNCHANGED lastReturn
             ELSE /\ pending' = Interleaved(pending)
                  /\ lastReturn' = [call EXCEPT !.atReturn = storage]
    /\ UNCHANGED <<storage, successLog, cufeVars, qrVars, recoveryVars>>

\* lines 114-137: warnings, the success toast, the log entry and the result
ReturnSuccess(call, updatedInvoice) ==
    [call EXCEPT
        !.pc = "returned",
        !.effects = @ \o [i \in 1..Len(call.warnings) |-> <<"toast.warning", "Advertencia">>]
                      \o << <<"toast.success", "Factura emitida exitosamente">>,
                            <<"logPDFAction", "generation_success">> >>,
        !.result = [success |-> TRUE, invoice |-> <<updatedInvoice>>,
                    errors |-> Absent, warnings |-> call.warnings]]

\* lines 77-137: what a waiting call may do once generateCUFE has resolved,
\* as pairs of the call it becomes and the localStorage it leaves.  Each
\* setItem may throw (quota exceeded).
ResumeOutcomes(call) ==
    LET invoices == InvoicesOf(call)
        invoice  == invoices[call.index]
        cufeData == call.cufePromise
        updatedInvoice  == UpdatedInvoice(invoice, call.fiscalFolio, cufeData)
        updatedInvoices == ReplaceInvoice(invoices, call.invoiceId, updatedInvoice)
        written  == [storage EXCEPT !.invoices = JSONStringifyInvoices(updatedInvoices)]
        savedShipments == written.shipments
        done     == ReturnSuccess(call, updatedInvoice)
    IN
    { [call |-> Catch(call, Thrown("QuotaExceededError")), storage |-> storage] }
    \cup
    ( IF savedShipments.kind = "null"
      THEN { [call |-> done, storage |-> written] }
      ELSE IF savedShipments.kind = "corrupt"
      THEN { [call |-> Catch(call, Thrown("SyntaxError")), storage |-> written] }
      ELSE LET shipments == JSONParse(savedShipments)
               updatedShipments == MarkShipments(shipments, ShipmentIdsOf(invoice))
           IN  { [call |-> Catch(call, Thrown("QuotaExceededError")), storage |-> written],
                 [call |-> done,
                  storage |-> [written EXCEPT
                      !.shipments = JSONStringifyShipments(updatedShipments)]] } )

\* lines 115-116, 158: the hook's state after a call has returned from its await
HookAfterResume(call) ==
    [hook EXCEPT !.isEmitting = FALSE,
                 !.validationWarnings =
                     IF call.result.success /\ Len(call.warnings) > 0
                     THEN call.warnings ELSE @]

\* lines 133-137, 152-159: the waiting call returns as returned, leaving
\* localStorage as written
Return(call, returned, written) ==
    /\ storage' = written
    /\ lastReturn' = [returned EXCEPT !.atReturn = written]
    /\ hook' = HookAfterResume(returned)
    /\ successLog' = IF returned.result.success
                     THEN Append(successLog, [n |-> call.n, invoiceId |-> call.invoiceId,
                                              invoice |-> returned.result.invoice[1]])
                     ELSE successLog

\* line 75: generateCUFE settles for the waiting call number n, which runs
\* to its return: the digest has rejected, or the call goes on from step 5
EmitResume(n) ==
    /\ UNCHANGED <<started, cufeVars, qrVars, recoveryVars>>
    /\ \E call \in pending :
        /\ call.n = n
        /\ pending' = Interleaved(pending \ {call})
        /\ \/ Return(call, Catch(call, Thrown("digest failed")), storage)
           \/ \E out \in ResumeOutcomes(call) : Return(call, out.call, out.storage)

-----------------------------------------------------------------------------
(* What localStorage may hold when the hook is first used: nothing, an     *)
(* unreadable string, or a list of invoices with pairwise distinct ids.    *)

InitialStorage ==
    [invoices : {JSONStringifyInvoices(<<Draft1, Issued("Emitida"), Draft2, Draft3>>)},
     shipments : {NoItem, Corrupt,
                  JSONStringifyShipments(<<Shipment(1), Shipment(2), Shipment(3)>>)}]
    \cup
    [invoices : {NoItem, Corrupt, JSONStringifyInvoices(<<Issued("Pagada"), Draft1>>)},
     shipments : {NoItem}]

\* the ids emitInvoice is called with: the stored ones and one that is not stored
CallIds == {DraftId(1), DraftId(2), DraftId(3), FolioId(1), DraftId(9)}

EmitInit ==
    /\ storage \in InitialStorage
    /\ pending = {}
    /\ lastReturn = IdleCall
    /\ hook = [isEmitting |-> FALSE, validationErrors |-> <<>>, validationWarnings |-> <<>>]
    /\ started = 0
    /\ successLog = <<>>

-----------------------------------------------------------------------------
(* cufeGenerator.ts: generateCUFE called twice in a row *)

\* another invoice with the same fields as inv but for those given
WithFields(inv, id, total, clientNit, rest) ==
    [inv EXCEPT !.id = id, !.total = total, !.clientNit = clientNit,
                !.subtotal = rest.subtotal, !.status = rest.status,
                !.cufe = rest.cufe, !.items = rest.items]

\* the fields generateCUFE is not meant to read, in two variants
OtherFields ==
    { [subtotal |-> Draft1.subtotal, status |-> "Borrador", cufe |-> Absent,
       items |-> Draft1.items],
      [subtotal |-> 1, status |-> "Emitida", cufe |-> Issued("Emitida").cufe,
       items |-> <<>>] }

\* 119000.50 and 119000.49, which round to different integers
CufeTotals == {11900050, 11900049}

\* "800.123-4" loses its check digit, "8001234-" has none to lose
CufeClientNits ==
    { Draft1.clientNit, <<"8", "0", "0", "1", "2", "3", "4", "-">> }

CufeInvoices ==
    { WithFields(Draft1, Draft1.id, total, clientNit, rest) :
        total \in CufeTotals, clientNit \in CufeClientNits, rest \in OtherFields }

CufeTemplates == { defaultTemplates[1], defaultTemplates[2] }

\* 12:00:00.000, 12:00:00.500 and 12:00:01.000
CufeInstants == {Instant(0), Instant(1), Instant(2)}

\* the instants generateCUFE is called with: two in the same second
CufeCallInstants == {Instant(0), Instant(1)}

NoCufeCall == [made |-> FALSE]

\* generateCUFE(invoice, template, emissionTimestamp) is called and settles;
\* the call before it is remembered
CallGenerateCUFE(invoice, template, emissionTimestamp) ==
    /\ cufeCalls' = << cufeCalls[2],
                       [made |-> TRUE, invoice |-> invoice, template |-> template,
                        emissionTimestamp |-> emissionTimestamp,
                        out |-> generateCUFE(invoice, template, emissionTimestamp)] >>
    /\ UNCHANGED <<emitVars, qrVars, recoveryVars>>

CufeInit == cufeCalls = <<NoCufeCall, NoCufeCall>>

-----------------------------------------------------------------------------
(* qrGenerator.ts *)

\* Number.prototype.toFixed(2) of a non-negative amount held in hundredths
ToFixed2(cents) ==
    NatToStr(cents \div 100) \o <<".">> \o PadStart(NatToStr(cents % 100), 2, "0")

\* new Date(isoString): the instant whose ISO string it is
DateFromISO(iso) == CHOOSE d \in CufeInstants : ToISOString(d) = iso

\* toLocaleTimeString('es-CO', { hour12: false }): HH:mm:ss of the local time
ToLocaleTimeString(d) ==
    Join(<< PadStart(NatToStr(d.hours), 2, "0"), <<":">>,
            PadStart(NatToStr(d.minutes), 2, "0"), <<":">>,
            PadStart(NatToStr(d.seconds), 2, "0") >>)

\* lines 18-29 and 63-74: the lines of the QR payload
qrContent(invoice, template) ==
    << <<"NumFac: ">> \o invoice.id,
       <<"FecFac: ">> \o invoice.issueDate,
       <<"HorFac: ">> \o (IF Falsy(invoice.emissionTimestamp) THEN <<>>
                         ELSE ToLocaleTimeString(DateFromISO(invoice.emissionTimestamp))),
       <<"NitFac: ">> \o template.companyInfo.nit,
       <<"DocAdq: ">> \o invoice.clientNit,
       <<"ValFac: ">> \o ToFixed2(invoice.subtotal),
       <<"ValIva: ">> \o ToFixed2(invoice.taxAmount),
       <<"ValOtroIm: 0.00">>,
       <<"ValTotalFac: ">> \o ToFixed2(invoice.total),
       <<"CUFE: ">> \o invoice.cufe >>

CufeMissingMessage == "La factura debe tener un CUFE generado antes de crear el QR"

QRFailedMessage == "No se pudo generar el código QR de la factura"

\* the promise of a generator that threw msg, having called the encoder k times
QRRejected(msg, k) == [settled |-> "rejected", message |-> msg, encoderCalls |-> k,
                       value |-> <<>>]

\* generateInvoiceQR(invoice, template), with an encoder that throws or not
generateInvoiceQR(invoice, template, encoderThrows) ==
    IF Falsy(invoice.cufe)
    THEN QRRejected(CufeMissingMessage, 0)
    ELSE LET content == qrContent(invoice, template) IN
         IF encoderThrows
         THEN QRRejected(QRFailedMessage, 1)
         ELSE [settled |-> "fulfilled", message |-> "", encoderCalls |-> 1,
               value |-> << <<"data:image/png">> >> \o content]

\* generateInvoiceQRBuffer without its CUFE check
generateInvoiceQRBuffer_Unchecked(invoice, template, encoderThrows) ==
    LET content == qrContent(invoice, template) IN
    IF encoderThrows
    THEN QRRejected(QRFailedMessage, 1)
    ELSE [settled |-> "fulfilled", message |-> "", encoderCalls |-> 1,
          value |-> << <<"png">> >> \o content]

\* generateInvoiceQRBuffer(invoice, template), with an encoder that throws or not
generateInvoiceQRBuffer(invoice, template, encoderThrows) ==
    IF Falsy(invoice.cufe)
    THEN QRRejected(CufeMissingMessage, 0)
    ELSE LET content == qrContent(invoice, template) IN
         IF encoderThrows
         THEN QRRejected(QRFailedMessage, 1)
         ELSE [settled |-> "fulfilled", message |-> "", encoderCalls |-> 1,
               value |-> << <<"png">> >> \o content]

\* the invoices the QR generators are given: with and without CUFE, emitted or not
QRInvoices ==
    { [inv EXCEPT !.cufe = cufe, !.emissionTimestamp = ts] :
        inv \in {Draft1, Draft2, Issued("Emitida"), Issued("Pagada")},
        cufe \in {Absent, Undefined, <<>>, Issued("Emitida").cufe},
        ts \in {Absent, ToISOString(Instant(1))} }

NoQRCall == [fn |-> "none"]

\* one of the two generators is called and settles
CallQR(fn, invoice, template, encoderThrows) ==
    /\ qrCall' = [fn |-> fn, invoice |-> invoice, template |-> template,
                  encoderThrows |-> encoderThrows,
                  out |-> IF fn = "generateInvoiceQR"
                          THEN generateInvoiceQR(invoice, template, encoderThrows)
                          ELSE generateInvoiceQRBuffer(invoice, template, encoderThrows)]
    /\ UNCHANGED <<emitVars, cufeVars, recoveryVars>>

QRInit == qrCall = NoQRCall

-----------------------------------------------------------------------------
(* PasswordRecovery.tsx *)

\* z.string().email(..): the address has an @ with text on both sides
IsEmail(s) == \E i \in 2..(Len(s) - 1) : s[i] = "@"

RECURSIVE DigitsOnly(_)
\* val.replace(/\D/g, "")
DigitsOnly(s) ==
    IF s = <<>> THEN <<>>
    ELSE IF IsDigit(Head(s)) THEN <<Head(s)>> \o DigitsOnly(Tail(s))
    ELSE DigitsOnly(Tail(s))

\* s.slice(0, 6)
Slice6(s) == SubSeq(s, 1, IF Len(s) < 6 THEN Len(s) ELSE 6)

\* codeSchema: z.string().min(6).max(6)
CodeSchemaAccepts(code) == Len(code) >= 6 /\ Len(code) <= 6

\* data.code.startsWith('12345')
CodeMatches_Prefix(code) == SubSeq(code, 1, 5) = <<"1", "2", "3", "4", "5">>

\* data.code === '123456'
CodeMatches(code) == code = <<"1", "2", "3", "4", "5", "6">>

\* handleClose(): lines 97-103
handleClose(d) ==
    [d EXCEPT !.step = "email", !.email = <<>>,
              !.emailField = <<>>, !.codeField = <<>>, !.open = FALSE]

\* what the user may type in the email field
TypedEmails == { <<"a", "@", "b">>, <<"c", "@", "d">>, <<"a", "b">> }

\* what the user may type or paste in the OTP field
TypedCodes ==
    { <<"1", "2", "3", "4", "5", "6">>, <<"1", "2", "3", "4", "5", "7">>,
      <<"6", "5", "4", "3", "2", "1">>, <<"1", "2", "3", "4", "5">>,
      <<"1", "2", "3", "-", "4", "5", "6", "7">>, <<"0", "1", "2", "3", "4", "5", "6">> }

RecoveryInit ==
    /\ dialog = [open |-> TRUE, step |-> "email", email |-> <<>>,
                 isSending |-> FALSE, isVerifying |-> FALSE,
                 emailField |-> <<>>, codeField |-> <<>>]
    /\ inFlight = [email |-> Absent, code |-> Absent]
    /\ toast = ""
    /\ requests = 0

\* the parent opens the dialog
OpenDialog ==
    /\ ~dialog.open
    /\ dialog' = [dialog EXCEPT !.open = TRUE]
    /\ UNCHANGED <<inFlight, toast, requests, emitVars, cufeVars, qrVars>>

\* the user edits the email field
TypeEmail(text) ==
    /\ dialog.open /\ dialog.step = "email"
    /\ dialog' = [dialog EXCEPT !.emailField = text]
    /\ UNCHANGED <<inFlight, toast, requests, emitVars, cufeVars, qrVars>>

\* lines 45-49: the email form passes its schema and onSubmitEmail starts
SubmitEmail ==
    /\ dialog.open /\ dialog.step = "email" /\ ~dialog.isSending
    /\ IsEmail(dialog.emailField)
    /\ dialog' = [dialog EXCEPT !.isSending = TRUE]
    /\ inFlight' = [inFlight EXCEPT !.email = dialog.emailField]
    /\ UNCHANGED <<toast, requests, emitVars, cufeVars, qrVars>>

\* lines 50-64: the 1500 ms timer of onSubmitEmail fires
EmailSent ==
    /\ inFlight.email # Absent
    /\ dialog' = [dialog EXCEPT !.email = inFlight.email, !.step = "code",
                                !.isSending = FALSE]
    /\ toast' = "Código enviado"
    /\ inFlight' = [inFlight EXCEPT !.email = Absent]
    /\ UNCHANGED <<requests, emitVars, cufeVars, qrVars>>

\* line 170: the user edits the OTP field
TypeCode(text) ==
    /\ dialog.open /\ dialog.step = "code" /\ ~dialog.isVerifying
    /\ dialog' = [dialog EXCEPT !.codeField = Slice6(DigitsOnly(text))]
    /\ UNCHANGED <<inFlight, toast, requests, emitVars, cufeVars, qrVars>>

\* lines 67-71: the code form passes its schema and onSubmitCode starts
SubmitCode ==
    /\ dialog.open /\ dialog.step = "code" /\ ~dialog.isVerifying
    /\ CodeSchemaAccepts(dialog.codeField)
    /\ dialog' = [dialog EXCEPT !.isVerifying = TRUE]
    /\ inFlight' = [inFlight EXCEPT !.code = dialog.codeField]
    /\ UNCHANGED <<toast, requests, emitVars, cufeVars, qrVars>>

\* lines 73-94: the 1000 ms timer of onSubmitCode fires
CodeChecked ==
    /\ inFlight.code # Absent
    /\ IF CodeMatches(inFlight.code)
       THEN /\ toast' = "Código verificado"
            /\ dialog' = [handleClose(dialog) EXCEPT !.isVerifying = FALSE]
       ELSE /\ toast' = "Código incorrecto"
            /\ dialog' = [dialog EXCEPT !.isVerifying = FALSE]
    /\ inFlight' = [inFlight EXCEPT !.code = Absent]
    /\ UNCHANGED <<requests, emitVars, cufeVars, qrVars>>

\* line 190: the Atrás button
Back ==
    /\ dialog.open /\ dialog.step = "code" /\ ~dialog.isVerifying
    /\ dialog' = [dialog EXCEPT !.step = "email"]
    /\ UNCHANGED <<inFlight, toast, requests, emitVars, cufeVars, qrVars>>

\* lines 112, 147: the dialog is dismissed, or Cancelar is pressed
CloseDialog ==
    /\ dialog.open
    /\ dialog' = handleClose(dialog)
    /\ UNCHANGED <<inFlight, toast, requests, emitVars, cufeVars, qrVars>>

-----------------------------------------------------------------------------
(* Specifications *)

\* the emission hook
Init == EmitInit /\ CufeInit /\ QRInit /\ RecoveryInit

\* the other parts of the program, with an empty localStorage
InitEmpty ==
    /\ EmitInit /\ storage = [invoices |-> NoItem, shipments |-> NoItem]
    /\ CufeInit /\ QRInit /\ RecoveryInit

Next ==
    \/ \E invoiceId \in CallIds : EmitStart(invoiceId)
    \/ \E n \in 1..MaxCalls : EmitResume(n)

Spec == Init /\ [][Next]_vars

\* the event loop runs the continuation of every settled promise
FairSpec == Spec /\ \A n \in 1..MaxCalls : WF_vars(EmitResume(n))

\* generateCUFE on its own
NextCUFE ==
    \E invoice \in CufeInvoices, template \in CufeTemplates,
       emissionTimestamp \in CufeCallInstants :
        CallGenerateCUFE(invoice, template, emissionTimestamp)

SpecCUFE == InitEmpty /\ [][NextCUFE]_vars

\* the QR generators on their own
NextQR ==
    \E fn \in {"generateInvoiceQR", "generateInvoiceQRBuffer"},
       invoice \in QRInvoices, i \in 1..Len(defaultTemplates),
       encoderThrows \in BOOLEAN :
        CallQR(fn, invoice, defaultTemplates[i], encoderThrows)

SpecQR == InitEmpty /\ [][NextQR]_vars

\* the password-recovery dialog
NextRecovery ==
    \/ OpenDialog
    \/ \E text \in TypedEmails : TypeEmail(text)
    \/ SubmitEmail
    \/ EmailSent
    \/ \E text \in TypedCodes : TypeCode(text)
    \/ SubmitCode
    \/ CodeChecked
    \/ Back
    \/ CloseDialog

SpecRecovery == InitEmpty /\ [][NextRecovery]_vars

-----------------------------------------------------------------------------
(* Properties *)

\* the invoice list localStorage holds, empty when it holds none
StoredInvoices ==
    IF storage.invoices.kind = "json" THEN JSONParse(storage.invoices) ELSE <<>>

\* the list without its i-th entry
Others(list, i) == SubSeq(list, 1, i - 1) \o SubSeq(list, i + 1, Len(list))

\* the stored list holds inv as an emitted invoice: its id, its cufe, 'Emitida'
StoredAsEmitted(inv) ==
    \E i \in 1..Len(StoredInvoices) :
        /\ StoredInvoices[i].id = inv.id
        /\ StoredInvoices[i].cufe = inv.cufe
        /\ StoredInvoices[i].status = "Emitida"

\* the invoice a returned call found under its invoiceId, when it found one
FoundBy(call) ==
    IF call.atStart.invoices.kind = "json"
       /\ FindInvoice(InvoicesOf(call), call.invoiceId) # 0
    THEN <<InvoicesOf(call)[FindInvoice(InvoicesOf(call), call.invoiceId)]>>
    ELSE <<>>

\* the toasts of one kind among a call's effects
ToastCount(call, kind) ==
    Cardinality({i \in 1..Len(call.effects) : call.effects[i][1] = kind})

Logged(call, action) ==
    \E i \in 1..Len(call.effects) :
        call.effects[i][1] = "logPDFAction" /\ call.effects[i][2] = action

\* C1: after any sequence of emitInvoice calls, overlapping ones included, no
\* two invoices of the stored list carry the same id (the stored ids being
\* pairwise distinct at first and generateFiscalFolio returning an id that
\* is not in the list it is given).
C1_FolioIdsUnique == DistinctIds(StoredInvoices)

\* two overlapping calls have both written the list and returned success
C1_Witness ==
    /\ Len(successLog) = 2
    /\ lastReturn.result.success /\ ~lastReturn.alone
    /\ \E i \in 1..Len(StoredInvoices) :
           StoredInvoices[i].id = lastReturn.fiscalFolio.id

\* the listed inputs of two generateCUFE calls agree
CufeInputsAgree(a, b) ==
    /\ a.invoice.id = b.invoice.id
    /\ a.invoice.total = b.invoice.total
    /\ a.invoice.taxAmount = b.invoice.taxAmount
    /\ a.invoice.clientNit = b.invoice.clientNit
    /\ a.template.companyInfo.nit = b.template.companyInfo.nit
    /\ a.template.technicalKey = b.template.technicalKey
    /\ a.emissionTimestamp = b.emissionTimestamp

\* C2: two generateCUFE calls whose inputs agree on invoice.id, total,
\* taxAmount, clientNit, the template's nit and technicalKey and the emission
\* timestamp return the same cufe and the same timestamp, whatever the other
\* invoice fields are and whatever was called before.
C2_CufeDeterministic ==
    (cufeCalls[1].made /\ cufeCalls[2].made
        /\ CufeInputsAgree(cufeCalls[1], cufeCalls[2]))
    => cufeCalls[1].out = cufeCalls[2].out

\* two calls in a row that agree on the listed inputs and differ in subtotal,
\* status, items and cufe
C2_Witness ==
    /\ cufeCalls[1].made /\ cufeCalls[2].made
    /\ CufeInputsAgree(cufeCalls[1], cufeCalls[2])
    /\ cufeCalls[1].invoice.subtotal # cufeCalls[2].invoice.subtotal
    /\ cufeCalls[1].invoice.status # cufeCalls[2].invoice.status
    /\ cufeCalls[1].invoice.items # cufeCalls[2].invoice.items

\* C3: both QR generators fail with 'La factura debe tener un CUFE generado
\* antes de crear el QR' when invoice.cufe is missing or empty, without
\* calling the encoder; with a cufe they call the encoder, and a failure of
\* the encoder is reported as 'No se pudo generar el código QR de la factura'.
C3_QRErrors ==
    qrCall.fn # "none" =>
        IF qrCall.invoice.cufe \in {Absent, Undefined, <<>>}
        THEN /\ qrCall.out.settled = "rejected"
             /\ qrCall.out.message =
                    "La factura debe tener un CUFE generado antes de crear el QR"
             /\ qrCall.out.encoderCalls = 0
        ELSE /\ qrCall.out.encoderCalls = 1
             /\ qrCall.encoderThrows =>
                    /\ qrCall.out.settled = "rejected"
                    /\ qrCall.out.message =
                           "No se pudo generar el código QR de la factura"
             /\ ~qrCall.encoderThrows => qrCall.out.settled = "fulfilled"

\* the buffer generator was given an invoice whose cufe is the empty string
C3_Witness ==
    /\ qrCall.fn = "generateInvoiceQRBuffer"
    /\ qrCall.invoice.cufe = <<>>
    /\ qrCall.out.settled = "rejected"

\* a returned call ended in the catch block: it did not succeed, and it is
\* not the return of a failed validation
EndedInCatch(call) ==
    /\ call.pc = "returned"
    /\ ~call.result.success
    /\ ~ (/\ FoundBy(call) # <<>>
          /\ ~NotDraft(FoundBy(call)[1])
          /\ ~validateInvoiceForEmission(FoundBy(call)[1]).isValid)

\* what C4 says of a call that has returned
C4_CatchResult(call) ==
    EndedInCatch(call) =>
        /\ call.result.errors # Absent
        /\ Len(call.result.errors) = 1
        /\ ToastCount(call, "toast.error") = 1
        /\ call.atStart.invoices.kind = "null"
             => call.result.errors = <<"No se encontraron facturas">>
        /\ (call.atStart.invoices.kind = "json" /\ FoundBy(call) = <<>>)
             => call.result.errors = <<"Factura no encontrada">>

\* C4: emitInvoice never rejects: every call eventually returns a result,
\* and when a step throws the result has success = false, errors is a list
\* of exactly one message, and one error toast is raised.
C4_NeverRejects ==
    /\ [] C4_CatchResult(lastReturn)
    /\ \A n \in 1..MaxCalls :
          (\E call \in pending : call.n = n)
              ~> (lastReturn.n = n /\ lastReturn.pc = "returned")

\* a call failed after its await, while writing to localStorage
C4_Witness ==
    /\ EndedInCatch(lastReturn)
    /\ lastReturn.cufeRequested
    /\ lastReturn.result.errors = <<"QuotaExceededError">>

\* C5: a call for an invoice whose stored status is not 'Borrador' returns
\* success = false with 'Solo se pueden emitir facturas en estado
\* "Borrador"', generates no fiscal folio and no CUFE, and writes nothing to
\* the stored invoices or shipments.
C5_OnlyDraftsEmitted ==
    (/\ lastReturn.pc = "returned"
     /\ FoundBy(lastReturn) # <<>>
     /\ FoundBy(lastReturn)[1].status # "Borrador")
    => /\ ~lastReturn.result.success
       /\ lastReturn.result.errors =
              <<"Solo se pueden emitir facturas en estado \"Borrador\"">>
       /\ lastReturn.fiscalFolio.id = <<>>
       /\ ~Logged(lastReturn, "generation_started")
       /\ ~lastReturn.cufeRequested
       /\ lastReturn.atReturn = lastReturn.atStart

\* a call for a paid invoice has returned
C5_Witness ==
    /\ lastReturn.pc = "returned"
    /\ FoundBy(lastReturn) # <<>>
    /\ FoundBy(lastReturn)[1].status = "Pagada"

\* the step in which the timer of onSubmitCode fires
CodeCheckedStep == inFlight.code # Absent /\ inFlight'.code = Absent

\* C6: submitting a code reports 'Código verificado' and closes the dialog
\* (step back to 'email', email cleared, onOpenChange(false)) if and only if
\* the code is '123456'; any other 6-character code gets the toast 'Código
\* incorrecto' and leaves the dialog as it is, open on step 'code'; no
\* backend is contacted either way.
C6_FixedCode ==
    [][ CodeCheckedStep =>
          /\ Len(inFlight.code) = 6
          /\ requests' = requests
          /\ IF inFlight.code = <<"1", "2", "3", "4", "5", "6">>
             THEN /\ toast' = "Código verificado"
                  /\ dialog'.step = "email"
                  /\ dialog'.email = <<>>
                  /\ ~dialog'.open
             ELSE /\ toast' = "Código incorrecto"
                  /\ dialog'.step = dialog.step
                  /\ dialog'.email = dialog.email
                  /\ dialog'.open = dialog.open ]_vars

\* a wrong code of six digits has been checked and the dialog is still
\* open on step 'code'
C6_Witness ==
    /\ toast = "Código incorrecto"
    /\ dialog.open /\ dialog.step = "code"
    /\ Len(dialog.codeField) = 6
    /\ ~dialog.isVerifying /\ inFlight.code = Absent

\* C7: after any sequence of emitInvoice calls no two invoices of the stored
\* list carry the same non-empty cufe: isCUFEUnique(cufe, the other stored
\* invoices) holds of every stored invoice that has a cufe, SHA-384 being
\* taken as injective.
C7_CufesUnique ==
    \A i \in 1..Len(StoredInvoices) :
        ~Falsy(StoredInvoices[i].cufe)
            => isCUFEUnique(StoredInvoices[i].cufe, Others(StoredInvoices, i))

\* two drafts with the same amounts and client have been emitted at the
\* same instant, and both are stored
C7_Witness ==
    /\ Len(successLog) = 2
    /\ successLog[1].invoice.emissionTimestamp = successLog[2].invoice.emissionTimestamp
    /\ successLog[1].invoice.total = successLog[2].invoice.total
    /\ StoredAsEmitted(successLog[1].invoice)
    /\ StoredAsEmitted(successLog[2].invoice)
    /\ successLog[1].invoice.id # successLog[2].invoice.id

\* C8: when an emitInvoice call returns success = false, whichever step
\* failed, the stored invoice list and the stored shipment list are what
\* they were when the call started, no other call having run in between.
C8_FailedEmissionChangesNothing ==
    (lastReturn.pc = "returned" /\ ~lastReturn.result.success /\ lastReturn.alone)
        => lastReturn.atReturn = lastReturn.atStart

\* C9: two calls for two different drafts have both returned
\* success = true, and both emissions are in the stored list with status
\* 'Emitida' and the folio id and cufe the calls returned.
C9_DurableUnderOverlap ==
    (/\ pending = {}
     /\ Len(successLog) >= 2
     /\ successLog[1].invoiceId # successLog[2].invoiceId)
    => /\ StoredAsEmitted(successLog[1].invoice)
       /\ StoredAsEmitted(successLog[2].invoice)

\* C10: over any sequence of emitInvoice calls with the same invoiceId at
\* most one returns success = true, and once an invoice is stored with
\* status 'Emitida' no later call changes its id, cufe, emissionTimestamp
\* or status.
C10_EmittedAtMostOnce ==
    [][ /\ Len(successLog') > Len(successLog) =>
              \A i \in 1..Len(successLog) :
                  successLog[i].invoiceId # successLog'[Len(successLog')].invoiceId
        /\ \A i \in 1..Len(StoredInvoices) :
              StoredInvoices[i].status = "Emitida" =>
                  \E j \in 1..Len(StoredInvoices') :
                      /\ StoredInvoices'[j].id = StoredInvoices[i].id
                      /\ StoredInvoices'[j].cufe = StoredInvoices[i].cufe
                      /\ StoredInvoices'[j].emissionTimestamp
                            = StoredInvoices[i].emissionTimestamp
                      /\ StoredInvoices'[j].status = "Emitida" ]_vars

\* a call that found a draft which validateInvoiceForEmission rejects
FailedValidation(call) ==
    /\ FoundBy(call) # <<>>
    /\ ~NotDraft(FoundBy(call)[1])
    /\ ~validateInvoiceForEmission(FoundBy(call)[1]).isValid

\* what C11 says of the step in which such a call returns
C11_GatedReturn ==
    (lastReturn' # lastReturn /\ FailedValidation(lastReturn')) =>
        LET validation == validateInvoiceForEmission(FoundBy(lastReturn')[1]) IN
        /\ lastReturn'.pc = "returned"
        /\ ~lastReturn'.result.success
        /\ lastReturn'.result.errors = validation.errors
        /\ lastReturn'.result.warnings = validation.warnings
        /\ hook'.validationErrors = validation.errors
        /\ hook'.validationWarnings = validation.warnings
        /\ lastReturn'.fiscalFolio.id = <<>>
        /\ ~Logged(lastReturn', "generation_started")
        /\ ~lastReturn'.cufeRequested
        /\ lastReturn'.atReturn = lastReturn'.atStart
        /\ storage' = storage

\* C11: when validateInvoiceForEmission reports isValid = false for a draft,
\* emitInvoice returns success = false with exactly the validation's errors
\* and warnings, sets validationErrors and validationWarnings to them,
\* generates no fiscal folio and no CUFE and leaves the stored invoices and
\* shipments unchanged; a call holds a fiscal folio only if the draft it
\* found passed validation.
C11_ValidationGatesEmission ==
    /\ [][C11_GatedReturn]_vars
    /\ [] (\A call \in pending \cup {lastReturn} :
              (call.fiscalFolio.id # <<>> \/ call.cufeRequested) =>
                  /\ FoundBy(call) # <<>>
                  /\ ~NotDraft(FoundBy(call)[1])
                  /\ validateInvoiceForEmission(FoundBy(call)[1]).isValid)

\* a call for the draft without client NIT, items and due date has returned
\* two errors and one warning, which the hook shows
C11_Witness ==
    /\ lastReturn.pc = "returned"
    /\ FailedValidation(lastReturn)
    /\ Len(lastReturn.result.errors) = 2
    /\ Len(lastReturn.result.warnings) = 1
    /\ hook.validationErrors = lastReturn.result.errors
    /\ hook.validationWarnings = lastReturn.result.warnings

\* the properties of an invoice that may hold undefined or be absent
OptionalFields == {"cufe", "emissionTimestamp", "pdfGeneratedAt", "dueDate"}

\* the fields of an invoice that step 5 sets
EmissionFields == {"id", "status", "cufe", "emissionTimestamp", "pdfGeneratedAt"}

\* C12: after a successful emission the stored list is the list the call
\* read with the entry whose id was invoiceId replaced in place by the same
\* invoice with id = the fiscal folio id, status = 'Emitida', cufe = the
\* generated CUFE, emissionTimestamp = the CUFE timestamp and pdfGeneratedAt
\* reading undefined; every other entry, the length and the order are
\* unchanged, and every property of the returned invoice reads as the
\* stored one's.
C12_EffectOnInvoiceList ==
    (lastReturn.pc = "returned" /\ lastReturn.result.success) =>
        LET before   == JSONParse(lastReturn.atStart.invoices)
            after    == JSONParse(lastReturn.atReturn.invoices)
            k        == FindInvoice(before, lastReturn.invoiceId)
            returned == lastReturn.result.invoice[1]
            cufeData == generateCUFE(before[k], SelectTemplate(before[k]),
                                     lastReturn.emissionTimestamp)
        IN  /\ lastReturn.atStart.invoices.kind = "json"
            /\ lastReturn.atReturn.invoices.kind = "json"
            /\ k # 0
            /\ Len(after) = Len(before)
            /\ \A i \in 1..Len(before) : i # k => after[i] = before[i]
            /\ after[k].id = lastReturn.fiscalFolio.id
            /\ after[k].id \notin InvoiceIds(before)
            /\ after[k].status = "Emitida"
            /\ after[k].cufe = cufeData.cufe
            /\ after[k].emissionTimestamp = cufeData.timestamp
            /\ Get(after[k].pdfGeneratedAt) = Undefined
            /\ \A f \in (DOMAIN before[k]) \ EmissionFields :
                   after[k][f] = before[k][f]
            /\ DOMAIN returned = DOMAIN after[k]
            /\ \A f \in DOMAIN returned :
                   IF f \in OptionalFields
                   THEN Get(returned[f]) = Get(after[k][f])
                   ELSE returned[f] = after[k][f]

\* the third entry of a list of four has been emitted by a call that
\* overlapped with another one
C12_Witness ==
    /\ lastReturn.pc = "returned" /\ lastReturn.result.success
    /\ ~lastReturn.alone
    /\ lastReturn.invoiceId = DraftId(2)
    /\ Len(StoredInvoices) = 4
    /\ StoredInvoices[3].id = lastReturn.fiscalFolio.id
    /\ StoredInvoices[3].status = "Emitida"

\* t is the first ENV-<digits> token of the description s: the match of
\* /ENV-\d+/ that starts leftmost and takes every digit that follows
IsFirstEnvToken(s, t) ==
    /\ Len(t) >= 5
    /\ SubSeq(t, 1, 4) = <<"E", "N", "V", "-">>
    /\ \A j \in 5..Len(t) : IsDigit(t[j])
    /\ \E i \in 1..Len(s) :
          /\ i + Len(t) - 1 <= Len(s)
          /\ SubSeq(s, i, i + Len(t) - 1) = t
          /\ (i + Len(t) <= Len(s) => ~IsDigit(s[i + Len(t)]))
          /\ \A j \in 1..(i - 1) :
                ~ (/\ j + 4 <= Len(s)
                   /\ SubSeq(s, j, j + 3) = <<"E", "N", "V", "-">>
                   /\ IsDigit(s[j + 4]))

\* what C13 says of the step in which a call returns success = true
C13_ShipmentsStep ==
    (lastReturn' # lastReturn /\ lastReturn'.pc = "returned"
        /\ lastReturn'.result.success) =>
        LET items == lastReturn'.result.invoice[1].items IN
        IF storage.shipments.kind = "null"
        THEN storage'.shipments = storage.shipments
        ELSE /\ storage.shipments.kind = "json"
             /\ storage'.shipments.kind = "json"
             /\ LET before == JSONParse(storage.shipments)
                    after  == JSONParse(storage'.shipments)
                IN  /\ Len(after) = Len(before)
                    /\ \A i \in 1..Len(before) :
                          IF \E k \in 1..Len(items) :
                                 IsFirstEnvToken(items[k].descripcion, before[i].id)
                          THEN after[i] = [before[i] EXCEPT !.estado = "Facturado"]
                          ELSE after[i] = before[i]

\* C13: on a successful emission a stored shipment gets estado =
\* 'Facturado' if and only if its id is the first ENV-<digits> token of the
\* description of some item of the emitted invoice; every other shipment and
\* every other field of the marked ones is unchanged; when no shipment list
\* is stored, none is created.
C13_EffectOnShipments == [][C13_ShipmentsStep]_vars

\* the invoice whose item reads "Envio ENV-1 ENV-3" has been emitted:
\* shipment ENV-1 is marked, shipments ENV-2 and ENV-3 are not
C13_Witness ==
    /\ lastReturn.pc = "returned" /\ lastReturn.result.success
    /\ lastReturn.invoiceId = DraftId(1)
    /\ lastReturn.atStart.shipments # lastReturn.atReturn.shipments
    /\ storage.shipments.kind = "json"
    /\ JSONParse(storage.shipments)[1].estado = "Facturado"
    /\ JSONParse(storage.shipments)[2].estado = "Pendiente"
    /\ JSONParse(storage.shipments)[3].estado = "Pendiente"

====
